---- MODULE Spec2Model ----
(***************************************************************************)
(* SAT-comparison: the three decision procedures of comparison.py          *)
(* (resolution saturation, Davis-Putnam elimination, DPLL) run by the      *)
(* benchmark harness on one CNF formula, and the list-based simplify /     *)
(* dp_solver / dpll_solver of resolution.py.                               *)
(*                                                                         *)
(* comparison.py holds a formula as a list of frozensets.  Every test the  *)
(* solvers make on that list (membership, emptiness, any(...)) ignores     *)
(* multiplicity, and the list order only decides which clause / literal    *)
(* `next(iter(...))` and `units[0]` select.  The formula is therefore a    *)
(* set of clauses here and each such selection is a choice (\E).           *)
(* The `assignment` dictionaries and lists are written but never read by   *)
(* any solver, so they are left out.                                       *)
(***************************************************************************)
EXTENDS Integers, FiniteSets, Sequences, TLC

VARIABLES
    cnf,            \* the formula handed to every solver (comparison.py)
    pc,             \* the solver that is running: "resolution", "dp", "dpll"; then "done"
    queue,          \* the solvers the harness has still to call, in order
    clauses,        \* resolution_solver: the working set
    rounds,         \* resolution_solver: passes of `while True` made so far
    res_resolution, \* run_solver label of resolution_solver, "none" before it returns
    dp_cnf,         \* dp_solver: the argument of the current recursive call
    dp_picked,      \* dp_solver: variables eliminated so far, in order
    res_dp,         \* run_solver label of dp_solver
    dpll_cnf,       \* dpll_solver: local `cnf` of the innermost call
    dpll_stack,     \* dpll_solver: formulas of the pending `val = False` iterations
    dpll_did,       \* dpll_solver: kinds of step taken so far
    dpll_picked,    \* dpll_solver: unit literals and branching variables selected, in order
    res_dpll,       \* run_solver label of dpll_solver
    lcnf,           \* resolution.py: the caller's list-of-lists formula
    llit,           \* resolution.py: the literal handed to simplify
    larg,           \* resolution.py: the formula as it was when simplify was called
    lout,           \* resolution.py: what simplify returned
    ldp,            \* resolution.py: outcome of dp_solver
    ldpll,          \* resolution.py: possible outcomes of dpll_solver
    lpc             \* resolution.py: "start", "simplified", "dp", "done"

vars == <<cnf, pc, queue, clauses, rounds, res_resolution, dp_cnf, dp_picked, res_dp,
          dpll_cnf, dpll_stack, dpll_did, dpll_picked, res_dpll,
          lcnf, llit, larg, lout, ldp, ldpll, lpc>>

setVars  == <<cnf, pc, queue, clauses, rounds, res_resolution, dp_cnf, dp_picked, res_dp,
              dpll_cnf, dpll_stack, dpll_did, dpll_picked, res_dpll>>
listVars == <<lcnf, llit, larg, lout, ldp, ldpll, lpc>>

(***************************************************************************)
(* Bounds of the input domain.                                             *)
(***************************************************************************)
NumVars      == 2   \* variables 1..NumVars
MaxClauseLen == 2   \* literals per input clause (set formulas)
MaxClauses   == 3   \* clauses per input formula (set formulas)
MaxSize      == 5   \* clauses plus literal occurrences of a list formula

Abs(x) == IF x < 0 THEN -x ELSE x

Lits == {l \in (-NumVars)..NumVars : l # 0}

AllClauses == {c \in SUBSET Lits : Cardinality(c) <= MaxClauseLen}

RECURSIVE SetsUpTo(_, _)
SetsUpTo(S, k) ==
    IF k = 0 THEN {{}}
    ELSE LET smaller == SetsUpTo(S, k - 1)
         IN  smaller \cup {T \cup {x} : T \in smaller, x \in S}

\* comparison.py `examples`
examples ==
    { {{1, -2}, {2, 3}, {-1, -3}},
      {{1}, {-1}},
      {{1, 2}, {-1, -2}, {1, -2}, {-1, 2}},
      {{1, 2}, {3, 4}, {-1, -3}, {-2, -4}} }

Formulas == SetsUpTo(AllClauses, MaxClauses) \cup examples

(***************************************************************************)
(* Ground truth: truth-table enumeration.                                  *)
(***************************************************************************)
VarsOf(F) == {Abs(l) : l \in UNION F}

Satisfies(a, F) ==
    \A c \in F : \E l \in c : IF l > 0 THEN a[l] ELSE ~a[-l]

Satisfiable(F) == \E a \in [VarsOf(F) -> BOOLEAN] : Satisfies(a, F)

IsTautology(c) == \E l \in c : -l \in c

Label(b) == IF b THEN "SAT" ELSE "UNSAT"

(***************************************************************************)
(* resolution_solver                                                       *)
(***************************************************************************)
\* The resolvents the inner loops add for one pair.  The value is the same
\* for (ci, cj) and (cj, ci), so the order combinations() yields a pair in
\* does not matter.
Resolvents(ci, cj) == {(ci \cup cj) \ {l, -l} : l \in {x \in ci : -x \in cj}}

\* All resolvents of one pass of `for ci, cj in combinations(clauses, 2)`.
RoundResolvents(C) ==
    UNION {UNION {Resolvents(ci, cj) : cj \in C \ {ci}} : ci \in C}

RECURSIVE ResolutionLoop(_)
ResolutionLoop(C) ==
    LET new == RoundResolvents(C)
    IN  IF {} \in new THEN FALSE
        ELSE IF new \subseteq C THEN TRUE
        ELSE ResolutionLoop(C \cup new)

resolution_solver(F) == ResolutionLoop(F)

\* resolution_solver without `clauses |= new`.
ResRoundNoMerge ==
    /\ pc = "resolution"
    /\ rounds' = rounds + 1
    /\ LET new == RoundResolvents(clauses)
       IN  IF {} \in new
           THEN /\ res_resolution' = "UNSAT"
                /\ pc' = "done"
           ELSE IF new \subseteq clauses
           THEN /\ res_resolution' = "SAT"
                /\ pc' = "done"
           ELSE UNCHANGED <<res_resolution, pc>>
    /\ UNCHANGED <<cnf, queue, clauses, dp_cnf, dp_picked, res_dp,
                   dpll_cnf, dpll_stack, dpll_did, dpll_picked, res_dpll>>
    /\ UNCHANGED listVars

\* The solver of this call has returned: the harness goes on to the next
\* solver of its tuple, if any (lines 164-168).
HarnessNext ==
    /\ pc' = IF queue = <<>> THEN "done" ELSE Head(queue)
    /\ queue' = IF queue = <<>> THEN <<>> ELSE Tail(queue)

\* One pass of `while True` (lines 14-25).
ResRound ==
    /\ pc = "resolution"
    /\ rounds' = rounds + 1
    /\ LET new == RoundResolvents(clauses)
       IN  IF {} \in new
           THEN /\ res_resolution' = "UNSAT"              \* line 19-20
                /\ HarnessNext
                /\ UNCHANGED clauses
           ELSE IF new \subseteq clauses
           THEN /\ res_resolution' = "SAT"                \* line 22-23
                /\ HarnessNext
                /\ UNCHANGED clauses
           ELSE /\ clauses' = clauses \cup new            \* line 24-25
                /\ UNCHANGED <<res_resolution, pc, queue>>
    /\ UNCHANGED <<cnf, dp_cnf, dp_picked, res_dp,
                   dpll_cnf, dpll_stack, dpll_did, dpll_picked, res_dpll>>
    /\ UNCHANGED listVars

(***************************************************************************)
(* dp_solver                                                               *)
(***************************************************************************)
Min(S) == CHOOSE x \in S : \A y \in S : x <= y

\* lines 38-46: the argument of the recursive call after eliminating var
DpEliminateOn(F, var) ==
    LET pos    == {c \in F : var \in c}
        neg    == {c \in F : -var \in c}
        others == {c \in F : var \notin c /\ -var \notin c}
    IN  others \cup {(c1 \cup c2) \ {var, -var} : c1 \in pos, c2 \in neg}

\* dp_solver when `next(iter(next(iter(cnf))))` always yields a literal of
\* the least variable present.
RECURSIVE dp_solver_least(_)
dp_solver_least(F) ==
    IF F = {} THEN TRUE
    ELSE IF {} \in F THEN FALSE
    ELSE dp_solver_least(DpEliminateOn(F, Min(VarsOf(F))))

DpFinish(label) ==
    /\ res_dp' = label
    /\ HarnessNext
    /\ UNCHANGED <<cnf, clauses, rounds, res_resolution, dp_cnf, dp_picked,
                   dpll_cnf, dpll_stack, dpll_did, dpll_picked, res_dpll>>
    /\ UNCHANGED listVars

\* line 32-33
DpReturnTrue ==
    /\ pc = "dp"
    /\ dp_cnf = {}
    /\ DpFinish("SAT")

\* line 34-35
DpReturnFalse ==
    /\ pc = "dp"
    /\ dp_cnf # {}
    /\ {} \in dp_cnf
    /\ DpFinish("UNSAT")

\* lines 36-46: the first literal of the first clause names the variable;
\* which clause and literal come first is not fixed by the set of clauses.
DpEliminate ==
    /\ pc = "dp"
    /\ dp_cnf # {}
    /\ {} \notin dp_cnf
    /\ \E var \in VarsOf(dp_cnf) :
         /\ dp_cnf' = DpEliminateOn(dp_cnf, var)
         /\ dp_picked' = Append(dp_picked, var)
    /\ UNCHANGED <<cnf, pc, queue, clauses, rounds, res_resolution, res_dp,
                   dpll_cnf, dpll_stack, dpll_did, dpll_picked, res_dpll>>
    /\ UNCHANGED listVars

(***************************************************************************)
(* dpll_solver                                                             *)
(***************************************************************************)
\* line 57
Units(F) == {c \in F : Cardinality(c) = 1}

\* lines 64-70: the loop hits `return False`
UnitConflict(F, l) ==
    \E c \in F : l \notin c /\ -l \in c /\ {x \in c : x # -l} = {}

\* lines 63-74: new_cnf
UnitPropagate(F, l) ==
    {IF -l \in c THEN {x \in c : x # -l} ELSE c : c \in {d \in F : l \notin d}}

\* lines 77-78
PureLiterals(F) == LET lits == UNION F IN {l \in lits : -l \notin lits}

\* lines 79-82: every pass of the loop filters on one pure literal, so the
\* result is the same in whatever order `pures` is walked.
PureEliminate(F) == {c \in F : \A l \in PureLiterals(F) : l \notin c}

\* The branch step without the removal of the falsified literal.
BranchReduceNoStrip(F, branch_lit) == {d \in F : branch_lit \notin d}

\* lines 93-102: new_cnf of one iteration of `for val in (True, False)`
BranchReduce(F, branch_lit) ==
    {IF -branch_lit \in c THEN {x \in c : x # -branch_lit} ELSE c :
        c \in {d \in F : branch_lit \notin d}}

\* dpll_solver when units[0] is the unit clause of the least literal and the
\* branching literal belongs to the least variable present.  A recursive
\* use after a unit step stands for the next pass of `while True`.
RECURSIVE dpll_solver_least(_)
dpll_solver_least(F) ==
    IF Units(F) # {}
    THEN LET l == Min(UNION Units(F))
         IN  IF UnitConflict(F, l) THEN FALSE
             ELSE dpll_solver_least(UnitPropagate(F, l))
    ELSE LET G == PureEliminate(F)
         IN  IF G = {} THEN TRUE
             ELSE IF {} \in G THEN FALSE
             ELSE LET var == Min(VarsOf(G))
                  IN  \/ dpll_solver_least(BranchReduce(G, var))
                      \/ dpll_solver_least(BranchReduce(G, -var))

\* The innermost call returns False: the caller's `for val` loop moves on to
\* val = False, or, with no such iteration pending, every caller returns
\* False in turn (lines 103-105).
DpllFail(did) ==
    IF dpll_stack = <<>>
    THEN /\ res_dpll' = "UNSAT"
         /\ HarnessNext
         /\ dpll_did' = did
         /\ UNCHANGED <<dpll_cnf, dpll_stack>>
    ELSE /\ dpll_cnf' = Head(dpll_stack)
         /\ dpll_stack' = Tail(dpll_stack)
         /\ dpll_did' = did \cup {"backtrack"}
         /\ UNCHANGED <<res_dpll, pc, queue>>

DpllFrame == <<cnf, clauses, rounds, res_resolution, dp_cnf, dp_picked, res_dp>>

\* lines 57-70
DpllUnitConflict ==
    /\ pc = "dpll"
    /\ \E c \in Units(dpll_cnf) : \E l \in c :
         /\ UnitConflict(dpll_cnf, l)
         /\ DpllFail(dpll_did \cup {"unit"})
         /\ dpll_picked' = Append(dpll_picked, l)
    /\ UNCHANGED DpllFrame
    /\ UNCHANGED listVars

\* lines 57-74
DpllUnitPropagate ==
    /\ pc = "dpll"
    /\ \E c \in Units(dpll_cnf) : \E l \in c :
         /\ ~UnitConflict(dpll_cnf, l)
         /\ dpll_cnf' = UnitPropagate(dpll_cnf, l)
         /\ dpll_picked' = Append(dpll_picked, l)
    /\ dpll_did' = dpll_did \cup {"unit"}
    /\ UNCHANGED <<dpll_stack, res_dpll, pc, queue>>
    /\ UNCHANGED DpllFrame
    /\ UNCHANGED listVars

DidPure(F) == IF PureLiterals(F) = {} THEN dpll_did ELSE dpll_did \cup {"pure"}

\* lines 77-85; True is handed up through every caller (line 103-104)
DpllReturnTrue ==
    /\ pc = "dpll"
    /\ Units(dpll_cnf) = {}
    /\ PureEliminate(dpll_cnf) = {}
    /\ res_dpll' = "SAT"
    /\ HarnessNext
    /\ dpll_did' = DidPure(dpll_cnf)
    /\ UNCHANGED <<dpll_cnf, dpll_stack, dpll_picked>>
    /\ UNCHANGED DpllFrame
    /\ UNCHANGED listVars

\* lines 77-87
DpllReturnFalse ==
    /\ pc = "dpll"
    /\ Units(dpll_cnf) = {}
    /\ PureEliminate(dpll_cnf) # {}
    /\ {} \in PureEliminate(dpll_cnf)
    /\ DpllFail(DidPure(dpll_cnf))
    /\ UNCHANGED dpll_picked
    /\ UNCHANGED DpllFrame
    /\ UNCHANGED listVars

\* Branching that returns whatever the val = True call returns.
DpllBranchTrueOnly ==
    /\ pc = "dpll"
    /\ Units(dpll_cnf) = {}
    /\ LET G == PureEliminate(dpll_cnf)
       IN  /\ G # {}
           /\ {} \notin G
           /\ \E var \in VarsOf(G) :
                /\ dpll_cnf' = BranchReduce(G, var)
                /\ dpll_picked' = Append(dpll_picked, var)
    /\ dpll_did' = DidPure(dpll_cnf) \cup {"branch"}
    /\ UNCHANGED <<dpll_stack, res_dpll, pc, queue>>
    /\ UNCHANGED DpllFrame
    /\ UNCHANGED listVars

\* lines 77-103: the call with val = True starts; the formula of the
\* val = False iteration waits on the stack.
DpllBranch ==
    /\ pc = "dpll"
    /\ Units(dpll_cnf) = {}
    /\ LET G == PureEliminate(dpll_cnf)
       IN  /\ G # {}
           /\ {} \notin G
           /\ \E var \in VarsOf(G) :
                /\ dpll_cnf' = BranchReduce(G, var)
                /\ dpll_stack' = <<BranchReduce(G, -var)>> \o dpll_stack
                /\ dpll_picked' = Append(dpll_picked, var)
    /\ dpll_did' = DidPure(dpll_cnf) \cup {"branch"}
    /\ UNCHANGED <<res_dpll, pc, queue>>
    /\ UNCHANGED DpllFrame
    /\ UNCHANGED listVars

(***************************************************************************)
(* The harness of comparison.py: one formula, the three solvers in turn.   *)
(***************************************************************************)
ListIdle ==
    /\ lcnf = <<>>
    /\ llit = 1
    /\ larg = <<>>
    /\ lout = <<>>
    /\ ldp = "none"
    /\ ldpll = {}
    /\ lpc = "idle"

\* A solver is handed the formula `cnf`; `rest` are the solvers to call
\* after it.
InitCall(solver, rest) ==
    /\ cnf \in Formulas
    /\ pc = solver
    /\ queue = rest
    /\ clauses = cnf
    /\ rounds = 0
    /\ res_resolution = "none"
    /\ dp_cnf = cnf
    /\ dp_picked = <<>>
    /\ res_dp = "none"
    /\ dpll_cnf = cnf
    /\ dpll_stack = <<>>
    /\ dpll_did = {}
    /\ dpll_picked = <<>>
    /\ res_dpll = "none"
    /\ ListIdle

NextDP == DpReturnTrue \/ DpReturnFalse \/ DpEliminate

NextDPLL ==
    \/ DpllUnitConflict
    \/ DpllUnitPropagate
    \/ DpllReturnTrue
    \/ DpllReturnFalse
    \/ DpllBranch

\* lines 162-168: Resolution, DP, DPLL on the same formula
Init == InitCall("resolution", <<"dp", "dpll">>)

Next == ResRound \/ NextDP \/ NextDPLL

Spec == Init /\ [][Next]_vars

\* One call of run_solver(name, resolution_solver, cnf).  The program runs
\* on until the solver returns, which is what the fairness condition says.
SpecResolution ==
    InitCall("resolution", <<>>) /\ [][ResRound]_vars /\ WF_vars(ResRound)

\* One call of run_solver with dp_solver, or one with dpll_solver.
InitSelection == \E solver \in {"dp", "dpll"} : InitCall(solver, <<>>)

SpecSelection == InitSelection /\ [][NextDP \/ NextDPLL]_vars

(***************************************************************************)
(* resolution.py: formulas are lists of lists of literals.                 *)
(***************************************************************************)
Range(seq) == {seq[i] : i \in DOMAIN seq}

\* parse_formula
parse_formula == <<(<<1, -2>>), (<<2, 3>>), (<<-1, -3>>)>>

\* The list formulas with at most t clauses and literal occurrences together.
RECURSIVE ListFormulasUpTo(_)
ListFormulasUpTo(t) ==
    IF t = 0 THEN {<<>>}
    ELSE {<<>>} \cup
         UNION {{<<c>> \o f : c \in [1..n -> Lits], f \in ListFormulasUpTo(t - 1 - n)} :
                    n \in 0..(t - 1)}

ListFormulas == ListFormulasUpTo(MaxSize) \cup {parse_formula}

\* lines 57-63: the loop of simplify from clause i on, new_cnf built so far
RECURSIVE SimplifyLoop(_, _, _, _)
SimplifyLoop(list, literal, i, new_cnf) ==
    IF i > Len(list) THEN new_cnf
    ELSE LET clause == list[i]
         IN  IF literal \in Range(clause)
             THEN SimplifyLoop(list, literal, i + 1, new_cnf)
             ELSE SimplifyLoop(list, literal, i + 1,
                      Append(new_cnf, SelectSeq(clause, LAMBDA x : x # -literal)))

\* simplify that appends new_clause only when it is not empty.
simplify_dropping_empty(list, literal) ==
    SelectSeq(SimplifyLoop(list, literal, 1, <<>>), LAMBDA c : c # <<>>)

simplify(list, literal) == SimplifyLoop(list, literal, 1, <<>>)

\* `[] in cnf`
HasEmptyClause(list) == \E i \in DOMAIN list : list[i] = <<>>

\* What `a or b` yields when a and b are recursive calls: b is evaluated
\* only if a returned False, and an exception in either goes up.
OrElse(a, b) == IF a = "UNSAT" THEN b ELSE a

\* lines 43-53; the assignment list takes no part in the result
RECURSIVE dp_recursive(_)
dp_recursive(list) ==
    IF HasEmptyClause(list) THEN "UNSAT"
    ELSE IF list = <<>> THEN "SAT"
    ELSE LET variable == Abs(list[1][1])
         IN  OrElse(dp_recursive(simplify(list, variable)),
                    dp_recursive(simplify(list, -variable)))

\* The unit loop without the test of lines 82-83.
RECURSIVE UnitLoopUnchecked(_)
UnitLoopUnchecked(list) ==
    LET unit_clauses == SelectSeq(list, LAMBDA c : Len(c) = 1)
    IN  IF unit_clauses = <<>> THEN [conflict |-> FALSE, cnf |-> list]
        ELSE UnitLoopUnchecked(simplify(list, unit_clauses[1][1]))

\* lines 77-84: [conflict |-> line 83 returned False, cnf |-> cnf at the end]
RECURSIVE UnitLoop(_)
UnitLoop(list) ==
    LET unit_clauses == SelectSeq(list, LAMBDA c : Len(c) = 1)
    IN  IF unit_clauses = <<>> THEN [conflict |-> FALSE, cnf |-> list]
        ELSE LET unit == unit_clauses[1][1]
                 next == simplify(list, unit)
             IN  IF HasEmptyClause(next) THEN [conflict |-> TRUE, cnf |-> next]
                 ELSE UnitLoop(next)

\* line 87
LiteralsOf(list) == UNION {Range(list[i]) : i \in DOMAIN list}

\* lines 88-91: `for lit in list(literals)` walks a set, in an order the
\* language does not fix.  Only the passes for pure literals change cnf, so
\* the values cnf can end with are those of the orders of the pure literals.
RECURSIVE PureWalk(_, _)
PureWalk(list, todo) ==
    IF todo = {} THEN {list}
    ELSE UNION {PureWalk(simplify(list, lit), todo \ {lit}) : lit \in todo}

PureOutcomes(list) ==
    LET literals == LiteralsOf(list)
    IN  PureWalk(list, {lit \in literals : -lit \notin literals})

\* lines 70-98: the outcomes dpll_recursive can have: "SAT", "UNSAT", or
\* "FAULT" when cnf[0][0] of line 96 does not exist.
RECURSIVE dpll_recursive(_)
dpll_recursive(list) ==
    IF HasEmptyClause(list) THEN {"UNSAT"}
    ELSE IF list = <<>> THEN {"SAT"}
    ELSE LET up == UnitLoop(list)
         IN  IF up.conflict THEN {"UNSAT"}
             ELSE UNION {
                 IF g = <<>> THEN {"SAT"}
                 ELSE IF g[1] = <<>> THEN {"FAULT"}
                 ELSE LET variable == Abs(g[1][1])
                          first    == dpll_recursive(simplify(g, variable))
                      IN  (first \ {"UNSAT"}) \cup
                          (IF "UNSAT" \in first
                           THEN dpll_recursive(simplify(g, -variable))
                           ELSE {})
                 : g \in PureOutcomes(up.cnf)}

\* line 40 / line 67
list_dp_solver(list) == dp_recursive(list)

list_dpll_solver(list) == dpll_recursive(list)

SetIdle ==
    /\ cnf = {}
    /\ pc = "idle"
    /\ queue = <<>>
    /\ clauses = {}
    /\ rounds = 0
    /\ res_resolution = "none"
    /\ dp_cnf = {}
    /\ dp_picked = <<>>
    /\ res_dp = "none"
    /\ dpll_cnf = {}
    /\ dpll_stack = <<>>
    /\ dpll_did = {}
    /\ dpll_picked = <<>>
    /\ res_dpll = "none"

InitList ==
    /\ lcnf \in ListFormulas
    /\ llit = 1
    /\ larg = <<>>
    /\ lout = <<>>
    /\ ldp = "none"
    /\ ldpll = {}
    /\ lpc = "start"
    /\ SetIdle

\* A caller applies simplify to its formula and some literal.
CallSimplify ==
    /\ lpc = "start"
    /\ \E literal \in Lits \cup LiteralsOf(lcnf) :
         /\ llit' = literal
         /\ larg' = lcnf
         /\ lout' = simplify(lcnf, literal)
    /\ lpc' = "simplified"
    /\ UNCHANGED <<lcnf, ldp, ldpll>>
    /\ UNCHANGED setVars

\* line 113: benchmark_solver("DP", dp_solver, cnf), on a deep copy
CallDp ==
    /\ lpc = "start"
    /\ ldp' = list_dp_solver(lcnf)
    /\ lpc' = "dp"
    /\ UNCHANGED <<lcnf, llit, larg, lout, ldpll>>
    /\ UNCHANGED setVars

\* line 114: benchmark_solver("DPLL", dpll_solver, cnf), on a deep copy
CallDpll ==
    /\ lpc = "dp"
    /\ ldpll' = list_dpll_solver(lcnf)
    /\ lpc' = "done"
    /\ UNCHANGED <<lcnf, llit, larg, lout, ldp>>
    /\ UNCHANGED setVars

NextList == CallSimplify \/ CallDp \/ CallDpll

SpecList == InitList /\ [][NextList]_vars

(***************************************************************************)
(* Claims about comparison.py                                              *)
(***************************************************************************)

\* C1: once the harness has run the three solvers on a formula, the three
\* verdicts are the same.
C1_Agreement ==
    pc = "done" => (res_resolution = res_dp /\ res_dp = res_dpll)

\* C2: the verdict of resolution_solver is SAT exactly when some truth
\* assignment satisfies every clause of the formula.
C2_ResolutionMatchesTruthTable ==
    res_resolution # "none" => res_resolution = Label(Satisfiable(cnf))

\* C3: the verdict of dp_solver is SAT exactly when the formula is
\* satisfiable.
C3_DpMatchesTruthTable ==
    res_dp # "none" => res_dp = Label(Satisfiable(cnf))

C5_EmptyClauseUnsat ==
    {} \in cnf =>
        /\ res_resolution \in {"none", "UNSAT"}
        /\ res_dp \in {"none", "UNSAT"}
        /\ res_dpll \in {"none", "UNSAT"}

\* C6: a tautological clause is inert: each solver's verdict on a formula
\* that holds a tautology t is its verdict on the formula without t.
C6_TautologyInert ==
    pc = "done" =>
        \A t \in cnf : IsTautology(t) =>
            /\ res_resolution = Label(resolution_solver(cnf \ {t}))
            /\ res_dp = Label(dp_solver_least(cnf \ {t}))
            /\ res_dpll = Label(dpll_solver_least(cnf \ {t}))

\* C8: the saturation loop of resolution_solver ends.  The working set
\* only grows from pass to pass; it keeps the input clauses and holds only
\* clauses over the input's literals, of which there are finitely many;
\* every pass but the returning one adds a clause to it, so the passes made
\* never outnumber the clauses added (plus the returning pass); and as long
\* as no verdict is out the loop is still running, a verdict being the only
\* way out of it.
ResolutionBounded ==
    /\ cnf \subseteq clauses
    /\ clauses \subseteq SUBSET (UNION cnf)
    /\ rounds <= Cardinality(clauses \ cnf)
                   + (IF res_resolution = "none" THEN 0 ELSE 1)
    /\ res_resolution = "none" => pc = "resolution"
    /\ res_resolution # "none" => pc = "done"

C8_ResolutionTerminates ==
    /\ []ResolutionBounded
    /\ [][clauses \subseteq clauses' /\ rounds' = rounds + 1]_vars

\* The loop returned after a pass that grew the working set.
C8_Witness ==
    /\ res_resolution \in {"SAT", "UNSAT"}
    /\ rounds >= 3
    /\ clauses # cnf

\* C8 as a liveness property of SpecResolution: a verdict comes out.
ResolutionReturns == <>(res_resolution \in {"SAT", "UNSAT"})

\* C9: whichever variable dp_solver eliminates at each step, and whichever
\* unit clause dpll_solver propagates and variable it branches on, the
\* verdict is the one of the run that always selects the least.
C9_SelectionIndependent ==
    /\ res_dp # "none" => res_dp = Label(dp_solver_least(cnf))
    /\ res_dpll # "none" => res_dpll = Label(dpll_solver_least(cnf))

\* dp_solver returned after eliminating a greater variable before a
\* lesser one.
DpRanOutOfOrder ==
    /\ res_dp # "none"
    /\ Len(dp_picked) >= 2
    /\ dp_picked[1] > dp_picked[2]

\* dpll_solver returned after branching first on a variable that is not the
\* least, and after backtracking.
DpllRanOutOfOrder ==
    /\ res_dpll # "none"
    /\ Units(cnf) = {}
    /\ Len(dpll_picked) >= 2
    /\ dpll_picked[1] # Min(VarsOf(PureEliminate(cnf)))
    /\ "backtrack" \in dpll_did

C9_Witness == DpRanOutOfOrder \/ DpllRanOutOfOrder

(***************************************************************************)
(* Claims about resolution.py                                              *)
(***************************************************************************)
\* The j-th least element of a set of indices.
Nth(S, j) == CHOOSE k \in S : Cardinality({x \in S : x < k}) = j - 1

\* C7: simplify(cnf, l) returns the clauses of cnf that do not contain l,
\* in order, each with every occurrence of -l removed and the rest in
\* order; emptied clauses and empty clauses are kept as empty clauses; the
\* result has no more clauses than cnf, no clause of it is longer than the
\* one it came from, and cnf is as it was.
C7_Simplify ==
    lpc = "simplified" =>
        LET kept == {i \in 1..Len(larg) : \A k \in 1..Len(larg[i]) : larg[i][k] # llit}
            From(j) == larg[Nth(kept, j)]
            Stay(j) == {k \in 1..Len(From(j)) : From(j)[k] # -llit}
        IN  /\ Len(lout) = Cardinality(kept)
            /\ \A j \in 1..Len(lout) :
                 /\ Len(lout[j]) = Cardinality(Stay(j))
                 /\ \A m \in 1..Len(lout[j]) : lout[j][m] = From(j)[Nth(Stay(j), m)]
                 /\ Len(lout[j]) <= Len(From(j))
                 /\ Stay(j) = {} => lout[j] = <<>>
            /\ Len(lout) <= Len(larg)
            /\ (\E i \in 1..Len(larg) : larg[i] = <<>>) =>
                    (\E j \in 1..Len(lout) : lout[j] = <<>>)
            /\ lcnf = larg

\* simplify dropped a clause and emptied another.
C7_Witness ==
    /\ lpc = "simplified"
    /\ Len(lout) < Len(larg)
    /\ \E j \in 1..Len(lout) : lout[j] = <<>>
    /\ \A i \in 1..Len(larg) : larg[i] # <<>>

ListSatisfiable(list) == Satisfiable({Range(list[i]) : i \in DOMAIN list})

====
